---- MODULE Spec2Model ----
(***************************************************************************)
(* Coordination plane of the replicated database cluster: timestamp        *)
(* allocator shards, metrics sampler, Cabinet quorum selection, SEER       *)
(* leader election, the write pipeline of the coordinator and its          *)
(* failover / administrative procedures.                                   *)
(*                                                                         *)
(* The coordinator is a single asyncio event loop: a handler runs          *)
(* atomically between two suspension points (an await that really          *)
(* suspends).  Each action below is one such atomic segment.  Blocking     *)
(* calls (subprocess.run, mysql.connector) do not suspend the loop.        *)
(* Instances are named by their index: instance-k is k, and its host and   *)
(* container are the same k.                                               *)
(***************************************************************************)
EXTENDS Integers, Sequences, FiniteSets, TLC

(* ------------------------------ constants ------------------------------ *)

\* MYSQL_INSTANCES: instance-1 .. instance-4
NumInstances == 4
\* TIMESTAMP_SERVICES: two allocator shards, SERVER_ID 1 and 2
NumShards == 2
\* current_counter += 2
Stride == 2
\* measure_latency: latency reported for a failed probe
FailLatency == 9999
\* collect_metrics: is_healthy = latency < 5000
UnhealthyThreshold == 5000
\* calculate_replica_score: crash_count * 100
CrashPenalty == 100

(* -------------------------------- bounds -------------------------------- *)

\* number of write requests the clients send
MaxWrites == 1
\* number of write requests in the specification of the write pipeline alone
MaxPipelineWrites == 2
\* number of rounds of the metrics sampler
MaxRounds == 1
\* a healthy probe measures a latency in 1..MaxLatency
MaxLatency == 2
\* number of administrative calls the operator makes
MaxAdminCalls == 2
\* number of /timestamp calls in the allocator-only specification
MaxIssued == 6
\* a published replication lag is in 0..MaxLag
MaxLag == 1
\* number of read requests
MaxReads == 1
MaxSamplerRounds == 3

Inst == 1..NumInstances
Shards == 1..NumShards
\* the latencies one sampling round can measure on the running instances: one
\* instance answers fastest
LatencyProfiles == {[i \in Inst |-> IF i = f THEN 1 ELSE MaxLatency] : f \in Inst}
Levels == {"EVENTUAL", "STRONG"}
None == 0

VARIABLES
  current_master,      \* coordinator: id of the designated primary
  current_replicas,    \* coordinator: sequence of follower ids
  running,             \* engine: container of instance i is running
  read_only,           \* engine: read_only / super_read_only of instance i
  source,              \* engine: replication source of instance i (None: no source)
  log,                 \* engine: writes applied on instance i, in apply order
  last_applied,        \* engine: _metadata.last_applied_timestamp of instance i
  table_ts,            \* engine: _table_timestamps.last_timestamp of instance i, 0: no row
  current_counter,     \* allocator shard s: current_counter
  replica_metrics,     \* sampler: replica_metrics[instance]
  current_master_host, \* sampler: its view of the primary
  now,                 \* sampler: clock, in sampling periods
  req,                 \* coordinator: the write requests in flight
  sm,                  \* coordinator: the /admin/stop-master call in flight
  pl,                  \* coordinator: the /admin/promote-leader call in flight
  rom,                 \* coordinator: the /admin/restart-old-master call in flight
  si,                  \* coordinator: the /admin/start-instance call in flight
  admin_calls,         \* number of administrative calls made so far
  issued,              \* history: the timestamps handed out by the shards
  duplicate,           \* history: some /timestamp response repeated an issued value
  resets,              \* history: a /reset call was served
  served,              \* history, per shard: /timestamp calls since start or /reset, last value
  promotions,          \* history: number of promotion commands that succeeded
  aborted,             \* history: failovers abandoned at a failed promotion, per path
  svc,                 \* the last direct call of a ranking service and its answer
  consistency_metrics, \* coordinator: the counters of /consistency-metrics
  rd,                  \* coordinator: the read requests in flight
  tt,                  \* the /table-timestamps call in flight and its last response
  cd,                  \* coordinator: the /admin/clear-data call in flight and its last response
  qr                   \* coordinator: the /query request being classified and its answer

vars == <<current_master, current_replicas, running, read_only, source, log,
          last_applied, table_ts, current_counter, replica_metrics, current_master_host,
          now, req, sm, pl, rom, si, admin_calls, issued, duplicate, resets, served,
          promotions, aborted, svc,
          consistency_metrics, rd, tt, cd, qr>>

topoVars == <<current_master, current_replicas>>
dbVars == <<running, read_only, source, log, last_applied, table_ts>>
samplerVars == <<replica_metrics, current_master_host, now>>
adminVars == <<sm, pl, rom, si, admin_calls>>
tsVars == <<current_counter, issued, duplicate, resets, served>>

(* ------------------------------- helpers -------------------------------- *)

Max(a, b) == IF a >= b THEN a ELSE b

Range(s) == {s[k] : k \in 1..Len(s)}

\* [r for r in seq if r != x]
Without(s, x) == SelectSeq(s, LAMBDA e : e # x)

\* [rid for rid in quorum if rid in set]
Restrict(s, S) == SelectSeq(s, LAMBDA e : e \in S)

(* --------------------------- timestamp shards --------------------------- *)

\* START_VALUE of shard s: 1 for the odd lane, 2 for the even lane
StartValue(s) == s

\* a shard that advances by one instead of by the stride
ShardNextUnit(c) == c + 1

\* GET /timestamp on shard s: returns the pre-increment value
ShardNext(c) == c + Stride

(* ------------------------ exact rational arithmetic ---------------------- *)

\* a weight or score is the fraction <<numerator, denominator>>, denominator > 0
FracGT(a, b) == a[1] * b[2] > b[1] * a[2]

\* a comparison with 0.0 that never succeeds
FracNeverZero(a) == FALSE

FracIsZero(a) == a[1] = 0

\* a sort without reverse=True: ascending by key[id], equal keys keep list order
SortAsc(ids, key) ==
  LET n == Len(ids)
      Before(a, b) == \/ FracGT(key[ids[b]], key[ids[a]])
                      \/ (~FracGT(key[ids[a]], key[ids[b]]) /\ a < b)
      Rank(a) == Cardinality({b \in 1..n : Before(b, a)}) + 1
  IN [k \in 1..n |-> ids[CHOOSE a \in 1..n : Rank(a) = k]]

\* list.sort(key=..., reverse=True): descending by key[id], equal keys keep list order
SortDesc(ids, key) ==
  LET n == Len(ids)
      Before(a, b) == \/ FracGT(key[ids[a]], key[ids[b]])
                      \/ (~FracGT(key[ids[b]], key[ids[a]]) /\ a < b)
      Rank(a) == Cardinality({b \in 1..n : Before(b, a)}) + 1
  IN [k \in 1..n |-> ids[CHOOSE a \in 1..n : Rank(a) = k]]

\* the ids of a /metrics response: replica_metrics.items(), in insertion order
MetricIds == [k \in 1..NumInstances |-> k]

(* -------------------------------- Cabinet -------------------------------- *)

\* a weight that ranks an unhealthy instance above every healthy one
WeightUnhealthyFirst(m) ==
  IF ~m.is_healthy THEN <<2, 1>>
  ELSE <<1, m.latency_ms + m.replication_lag + 1>>

\* a weight that ignores the replication lag
WeightIgnoringLag(m) ==
  IF ~m.is_healthy THEN <<0, 1>>
  ELSE <<1, m.latency_ms + 1>>

\* calculate_replica_weight: 0 if unhealthy, else 1 / (latency + lag + 1)
calculate_replica_weight(m) ==
  IF ~m.is_healthy THEN <<0, 1>>
  ELSE <<1, m.latency_ms + m.replication_lag + 1>>

\* a quorum size rounded down
QuorumSizeFloor(total) == (total + 1) \div 2

\* math.ceil((total_replicas + 1) / 2)
QuorumSize(total) == (total + 2) \div 2

\* select_quorum on the /metrics response listing the ids `replicas` with the
\* entries `metrics`: [ok, quorum]
select_quorum(replicas, metrics) ==
  LET weighted == SortDesc(replicas, [i \in Inst |-> calculate_replica_weight(metrics[i])])
      total == Len(replicas)
      size == QuorumSize(total)
      top == SubSeq(weighted, 1, IF size <= total THEN size ELSE total)
      healthy_in_quorum == Cardinality({k \in 1..Len(top) : metrics[top[k]].is_healthy})
  IN IF total = 0 \/ healthy_in_quorum = 0
       THEN [ok |-> FALSE, quorum |-> <<>>]
       ELSE [ok |-> TRUE, quorum |-> top]

(* --------------------------------- SEER ---------------------------------- *)

\* calculate_replica_score: 5 * total_score as a fraction, where
\* total = 0.4/(latency+1) + 0.4*uptime/(uptime + 100*crashes + 1) + 0.2/(lag+1)
calculate_replica_score(m) ==
  IF ~m.is_healthy THEN <<0, 1>>
  ELSE LET l == m.latency_ms + 1
           s == m.uptime_seconds + m.crash_count * CrashPenalty + 1
           g == m.replication_lag + 1
       IN <<2 * s * g + 2 * m.uptime_seconds * l * g + l * s, l * s * g>>

\* elect_leader on the /metrics response listing the ids `all_replicas` with the
\* entries `metrics`, and the request's exclude_replicas: [ok, leader_id]
elect_leader(all_replicas, metrics, exclude) ==
  LET replicas == SelectSeq(all_replicas, LAMBDA i : i \notin exclude)
      scored == SortDesc(replicas, [i \in Inst |-> calculate_replica_score(metrics[i])])
  IN IF Len(all_replicas) = 0 \/ Len(replicas) = 0 THEN [ok |-> FALSE, leader_id |-> None]
     ELSE IF FracIsZero(calculate_replica_score(metrics[scored[1]]))
          THEN [ok |-> FALSE, leader_id |-> None]
          ELSE [ok |-> TRUE, leader_id |-> scored[1]]

(* ----------------------------- metrics sampler --------------------------- *)

\* time.sleep(5) between two rounds; the clock `now` counts rounds
SamplePeriod == 5

\* get_last_applied_timestamp: the stored value, 0 when the instance is unreachable
get_last_applied_timestamp(i) == IF running[i] THEN last_applied[i] ELSE 0

\* measure_latency: the measured round trip, 9999 for a failed connection
measure_latency(i, lat) == IF running[i] THEN lat[i] ELSE FailLatency

\* master_timestamp of a round: the primary's value, or the highest value seen
MasterTimestamp(host) ==
  LET direct == get_last_applied_timestamp(host)
      all == {get_last_applied_timestamp(i) : i \in Inst}
  IN IF direct # 0 THEN direct
     ELSE CHOOSE t \in all : \A u \in all : u <= t

\* a crash counted in every round that finds the instance unhealthy
CrashLevel(was_healthy, is_healthy) == ~is_healthy

\* was_healthy and not is_healthy: the round sees the instance go down
CrashEdge(was_healthy, is_healthy) == was_healthy /\ ~is_healthy

\* one iteration of the per-instance loop body of collect_metrics
SampleInstance(old, latency, instance_timestamp, master_timestamp) ==
  LET lag == IF master_timestamp > 0
               THEN Max(0, master_timestamp - instance_timestamp) ELSE 0
      is_healthy == latency < UnhealthyThreshold
      edge == old.is_healthy # is_healthy
      start_time == IF edge THEN now ELSE old.start_time
  IN [latency_ms |-> latency,
      replication_lag |-> lag,
      uptime_seconds |-> IF is_healthy THEN SamplePeriod * (now - start_time) ELSE 0,
      crash_count |-> IF CrashEdge(old.is_healthy, is_healthy)
                        THEN old.crash_count + 1 ELSE old.crash_count,
      start_time |-> start_time,
      is_healthy |-> is_healthy]

\* one round of collect_metrics: refresh the primary, probe every instance, sleep
collect_metrics(lat, status_ok) ==
  /\ LET master_host == IF status_ok THEN current_master ELSE current_master_host
         master_timestamp == MasterTimestamp(master_host)
     IN /\ current_master_host' = master_host
        /\ replica_metrics' =
             [i \in Inst |-> SampleInstance(replica_metrics[i], measure_latency(i, lat),
                                            get_last_applied_timestamp(i), master_timestamp)]
  /\ now' = now + 1
  /\ UNCHANGED <<topoVars, dbVars, tsVars, req, adminVars, promotions, aborted, svc,
                 consistency_metrics, rd, tt, cd, qr>>

InitMetrics ==
  [latency_ms |-> 0, replication_lag |-> 0, uptime_seconds |-> 0,
   crash_count |-> 0, start_time |-> 0, is_healthy |-> TRUE]

(* --------------------------- allocator endpoints ------------------------- *)

\* GET /timestamp on shard s: read the counter and advance it, under counter_lock
get_timestamp(s) ==
  /\ current_counter' = [current_counter EXCEPT ![s] = ShardNext(@)]
  /\ issued' = issued \cup {current_counter[s]}
  /\ duplicate' = (duplicate \/ current_counter[s] \in issued)
  /\ served' = [served EXCEPT ![s] = [k |-> @.k + 1, timestamp |-> current_counter[s]]]
  /\ UNCHANGED resets

\* a reset that leaves the counter where it is
ResetKept(s, c) == c

\* current_counter = START_VALUE
ResetValue(s, c) == StartValue(s)

\* POST /reset on shard s
reset_counter(s) ==
  /\ current_counter' = [current_counter EXCEPT ![s] = ResetValue(s, @)]
  /\ resets' = TRUE
  /\ served' = [served EXCEPT ![s] = [k |-> 0, timestamp |-> None]]
  /\ UNCHANGED <<issued, duplicate>>

(* ------------------------------ the engine ------------------------------- *)

\* an engine that accepts writes while read_only is ON
CanWriteUnchecked(host, bad) == running[host] /\ ~bad

\* execute_query_on_host succeeds: the host is reachable and writable and the
\* engine accepts the statement
CanWrite(host, bad) == running[host] /\ ~read_only[host] /\ ~bad

\* a metadata update that overwrites the stored value
StoredOverwrite(old, ts) == ts

\* the statement, then last_applied_timestamp = GREATEST(last_applied_timestamp, ts)
Stored(old, ts) == Max(old, ts)

\* the transactions of the n-th administrative call in an instance's log:
\* DELETE FROM users, DELETE FROM products, UPDATE _metadata (write requests
\* are logged under their positive request numbers)
ClearTxn(n) == 0 - n

IsClear(e) == e < 0

\* the rows of the data tables of instance i: those of the writes it executed
\* after the last DELETE
Rows(i) ==
  LET cl == {k \in 1..Len(log[i]) : IsClear(log[i][k])}
      from == IF cl = {} THEN 0 ELSE CHOOSE k \in cl : \A j \in cl : j <= k
  IN {log[i][k] : k \in (from + 1)..Len(log[i])}

\* a data-clear that deletes the rows of _table_timestamps as well
ClearedTableRows(last_timestamp) == 0

\* the statements of clear_test_data name users, products and _metadata: the
\* row of _table_timestamps keeps its value
KeptTableRows(last_timestamp) == last_timestamp

\* native replication: a follower fetches from its source the first transaction
\* it has not applied yet and replays it (statement and metadata update)
Missing(i) == {k \in 1..Len(log[source[i]]) : log[source[i]][k] \notin Range(log[i])}

Replicate(i) ==
  /\ running[i] /\ source[i] # None /\ running[source[i]]
  /\ Missing(i) # {}
  /\ LET k == CHOOSE k \in Missing(i) : \A j \in Missing(i) : k <= j
         w == log[source[i]][k]
     IN /\ log' = [log EXCEPT ![i] = Append(@, w)]
        /\ last_applied' = [last_applied EXCEPT
                              ![i] = IF IsClear(w) THEN 0 ELSE Stored(@, req[w].timestamp)]
        /\ table_ts' = [table_ts EXCEPT
                          ![i] = IF IsClear(w) THEN KeptTableRows(@)
                                 ELSE Stored(@, req[w].timestamp)]
  /\ UNCHANGED <<running, read_only, source, topoVars, tsVars, samplerVars, req,
                 adminVars, promotions, aborted, svc,
                 consistency_metrics, rd, tt, cd, qr>>

\* a handler that takes every promotion command for a success
PromoteAssumed(c, ok) == TRUE

\* promote_replica_to_master: docker exec of STOP SLAVE; RESET SLAVE ALL;
\* SET GLOBAL read_only = OFF; it fails when the container is not running, or when
\* docker exec returns an error or times out (ok = FALSE)
PromoteOk(c, ok) == running[c] /\ ok

PromotedSource(c) == [source EXCEPT ![c] = None]

PromotedReadOnly(c) == [read_only EXCEPT ![c] = FALSE]

(* ---------------------------- the write pipeline -------------------------- *)

\* consistency_metrics at start-up (the latency sums are left out)
ZeroCounters ==
  [l \in Levels |-> [read_count |-> 0, write_count |-> 0, failures |-> 0,
                     quorum_not_achieved |-> 0]]

\* consistency_metrics[level]["failures"] += 1
CountFailure(level) == [consistency_metrics EXCEPT ![level].failures = @ + 1]

\* a handler that counts the write but not the missed quorum
CountWriteOnly(level, missed) == [consistency_metrics EXCEPT ![level].write_count = @ + 1]

\* write_count += 1, and quorum_not_achieved += 1 when the quorum did not catch up
CountWrite(level, missed) ==
  [consistency_metrics EXCEPT ![level].write_count = @ + 1,
                              ![level].quorum_not_achieved = IF missed THEN @ + 1 ELSE @]

\* the counters after a step of handle_write_query past the intake left the
\* request as r: a response counts the write, an error counts a failure
Counted(r) ==
  IF r.pc = "done" THEN CountWrite(r.level, r.quorum_achieved = "no")
  ELSE IF r.pc = "error" THEN CountFailure(r.level)
  ELSE consistency_metrics

\* requests are numbered in their order of arrival
Arrived(w) == IF w = 0 THEN TRUE ELSE req[w].pc # "new"

NewReq ==
  [pc |-> "new", level |-> "STRONG", bad |-> FALSE, timestamp |-> 0,
   cabinet_quorum |-> <<>>, targets |-> <<>>, master_host |-> None,
   primary_lost |-> FALSE, elected |-> None, promoted |-> None, applied_on |-> None,
   quorum_achieved |-> "unset",
   \* history: calls of execute_query_on_host on a primary, of /elect-leader and
   \* of promote_replica_to_master made for this request
   applies |-> 0, elections |-> 0, promote_cmds |-> 0]

\* a handler that treats every write as STRONG
NeedsQuorumAlways(level) == TRUE

\* consistency == ConsistencyLevel.STRONG
NeedsQuorum(level) == level = "STRONG"

\* handle_write_query up to the timestamp: shard s is the first of the shuffled
\* shards that answers
WriteGetTimestamp(w, level, bad, s) ==
  /\ req[w].pc = "new"
  /\ Arrived(w - 1)
  /\ get_timestamp(s)
  /\ req' = [req EXCEPT ![w] = [@ EXCEPT !.pc = IF NeedsQuorum(level) THEN "quorum" ELSE "apply",
                                         !.level = level, !.bad = bad,
                                         !.timestamp = current_counter[s]]]
  /\ UNCHANGED <<topoVars, dbVars, samplerVars, adminVars, promotions, aborted, svc,
                 consistency_metrics, rd, tt, cd, qr>>

\* get_timestamp when every shard fails: HTTP 503, nothing else happens
WriteNoTimestamp(w) ==
  /\ req[w].pc = "new"
  /\ Arrived(w - 1)
  /\ req' = [req EXCEPT ![w].pc = "error"]
  /\ UNCHANGED <<topoVars, dbVars, tsVars, samplerVars, adminVars, promotions, aborted, svc,
                 consistency_metrics, rd, tt, cd, qr>>

\* a handler that goes on to the apply without a quorum
NoQuorumProceeds(r) == [r EXCEPT !.pc = "apply"]

\* get_cabinet_quorum raised: HTTP 503, the request is over
NoQuorum(r) == [r EXCEPT !.pc = "error"]

\* get_cabinet_quorum: Cabinet answers from the sampler's current snapshot, unless
\* the service cannot be reached (up = FALSE)
WriteGetQuorum(w, up) ==
  /\ req[w].pc = "quorum"
  /\ LET r == select_quorum(MetricIds, replica_metrics)
     IN req' = [req EXCEPT ![w] = IF up /\ r.ok
                  THEN [@ EXCEPT !.pc = "apply", !.cabinet_quorum = r.quorum]
                  ELSE NoQuorum(@)]
  /\ UNCHANGED <<topoVars, dbVars, tsVars, samplerVars, adminVars, promotions, aborted, svc,
                 consistency_metrics, rd, tt, cd, qr>>

\* target_replicas of wait_for_quorum_catchup
TargetReplicas(quorum_replicas, replicas) == Restrict(quorum_replicas, Range(replicas))

\* a wait that counts an empty set of targets as caught up
NoTargetsAchieved(a) == [a EXCEPT !.pc = "done", !.quorum_achieved = "yes"]

\* wait_for_quorum_catchup without target_replicas: quorum_achieved = False
NoTargets(a) == [a EXCEPT !.pc = "done", !.quorum_achieved = "no"]

\* what follows a successful apply without suspension: the EVENTUAL response, or
\* the start of wait_for_quorum_catchup (which answers at once without targets)
AfterApply(r, master_host, host, replicas) ==
  LET a == [r EXCEPT !.master_host = master_host, !.applied_on = host]
      targets == TargetReplicas(r.cabinet_quorum, replicas)
  IN IF ~NeedsQuorum(r.level) THEN [a EXCEPT !.pc = "done"]
     ELSE IF targets = <<>> THEN NoTargets(a)
     ELSE [a EXCEPT !.pc = "catchup", !.targets = targets]

\* Step 3: execute on the designated primary; on failure ask SEER
WriteExecute(w) ==
  /\ req[w].pc = "apply"
  /\ LET m == current_master
     IN IF CanWrite(m, req[w].bad)
        THEN /\ log' = [log EXCEPT ![m] = Append(@, w)]
             /\ last_applied' = [last_applied EXCEPT ![m] = Stored(@, req[w].timestamp)]
             /\ table_ts' = [table_ts EXCEPT ![m] = Stored(@, req[w].timestamp)]
             /\ req' = [req EXCEPT ![w] = AfterApply([@ EXCEPT !.applies = @ + 1], m, m,
                                                     current_replicas)]
        ELSE /\ req' = [req EXCEPT ![w] = [@ EXCEPT !.pc = "elect", !.master_host = m,
                                                    !.primary_lost = ~CanWrite(m, FALSE),
                                                    !.applies = @ + 1]]
             /\ UNCHANGED <<log, last_applied, table_ts>>
  /\ UNCHANGED <<running, read_only, source, topoVars, tsVars, samplerVars,
                 adminVars, promotions, aborted, svc, rd, tt, cd, qr>>
  /\ consistency_metrics' = Counted(req'[w])

\* a swap that forgets to take the candidate out of the followers
WriteSwapKeep(c) == Append(current_replicas, current_master)

\* the topology after the write path's failover to candidate c
WriteSwapMaster(c) == c

WriteSwapReplicas(c) == Append(Without(current_replicas, c), current_master)

\* a handler that answers a failed retry with another failover
RetryFailsOver(r) == [r EXCEPT !.pc = "elect"]

\* the retry on the new primary failed: HTTP 500, the request is over
AfterRetryFailure(r) == [r EXCEPT !.pc = "error"]

\* elect_new_leader: SEER answers from the sampler's current snapshot
WriteElect(w) ==
  /\ req[w].pc = "elect"
  /\ LET e == elect_leader(MetricIds, replica_metrics, {})
     IN req' = [req EXCEPT ![w] = IF e.ok
                  THEN [@ EXCEPT !.pc = "promote", !.elected = e.leader_id,
                                 !.elections = @ + 1]
                  ELSE [@ EXCEPT !.pc = "error", !.elections = @ + 1]]
  /\ UNCHANGED <<topoVars, dbVars, tsVars, samplerVars, adminVars, promotions, aborted, svc,
                 rd, tt, cd, qr>>
  /\ consistency_metrics' = Counted(req'[w])

\* the failover of handle_write_query once SEER has answered: promotion, swap and
\* the retry on the new primary, up to the response or the start of the catch-up wait
WriteFailover(w, ok) ==
  /\ req[w].pc = "promote"
  /\ LET c == req[w].elected
     IN IF c \notin Range(current_replicas)
        THEN /\ req' = [req EXCEPT ![w].pc = "error"]
             /\ UNCHANGED <<topoVars, dbVars, promotions, aborted>>
        ELSE IF ~PromoteOk(c, ok)
        THEN /\ req' = [req EXCEPT ![w] = [@ EXCEPT !.pc = "error", !.promote_cmds = @ + 1]]
             /\ aborted' = [aborted EXCEPT !["write"] = @ + 1]
             /\ UNCHANGED <<topoVars, dbVars, promotions>>
        ELSE /\ source' = PromotedSource(c)
             /\ read_only' = PromotedReadOnly(c)
             /\ promotions' = promotions + 1
             /\ UNCHANGED aborted
             /\ current_master' = WriteSwapMaster(c)
             /\ current_replicas' = WriteSwapReplicas(c)
             /\ UNCHANGED running
             /\ IF ~req[w].bad
                THEN /\ log' = [log EXCEPT ![c] = Append(@, w)]
                     /\ last_applied' = [last_applied EXCEPT ![c] = Stored(@, req[w].timestamp)]
                     /\ table_ts' = [table_ts EXCEPT ![c] = Stored(@, req[w].timestamp)]
                     /\ req' = [req EXCEPT ![w] =
                                  AfterApply([@ EXCEPT !.promoted = c, !.promote_cmds = @ + 1,
                                                       !.applies = @ + 1],
                                             req[w].master_host, c, current_replicas')]
                ELSE /\ req' = [req EXCEPT ![w] =
                                  AfterRetryFailure([@ EXCEPT !.promoted = c,
                                                              !.promote_cmds = @ + 1,
                                                              !.applies = @ + 1])]
                     /\ UNCHANGED <<log, last_applied, table_ts>>
  /\ UNCHANGED <<tsVars, samplerVars, adminVars, svc, rd, tt, cd, qr>>
  /\ consistency_metrics' = Counted(req'[w])

\* check_replica_timestamp_sync
check_replica_timestamp_sync(replica_host, timestamp) ==
  get_last_applied_timestamp(replica_host) >= timestamp

AllCaughtUp(r) ==
  \A k \in 1..Len(r.targets) : check_replica_timestamp_sync(r.targets[k], r.timestamp)

\* one polling round of wait_for_quorum_catchup in which every target has caught up
WriteCatchupPoll(w) ==
  /\ req[w].pc = "catchup"
  /\ AllCaughtUp(req[w])
  /\ req' = [req EXCEPT ![w] = [@ EXCEPT !.pc = "done", !.quorum_achieved = "yes"]]
  /\ UNCHANGED <<topoVars, dbVars, tsVars, samplerVars, adminVars, promotions, aborted, svc,
                 rd, tt, cd, qr>>
  /\ consistency_metrics' = Counted(req'[w])

\* a wait that goes on polling when the check after the deadline fails
FinalCheckPollsAgain(r) ==
  IF AllCaughtUp(r) THEN [r EXCEPT !.pc = "done", !.quorum_achieved = "yes"] ELSE r

\* the final check after the loop: it decides, whatever it finds
FinalCheck(r) ==
  [r EXCEPT !.pc = "done", !.quorum_achieved = IF AllCaughtUp(r) THEN "yes" ELSE "no"]

\* the deadline has elapsed: one final check decides
WriteCatchupDeadline(w) ==
  /\ req[w].pc = "catchup"
  /\ req' = [req EXCEPT ![w] = FinalCheck(@)]
  /\ UNCHANGED <<topoVars, dbVars, tsVars, samplerVars, adminVars, promotions, aborted, svc,
                 rd, tt, cd, qr>>
  /\ consistency_metrics' = Counted(req'[w])

(* ------------------------------ the read path ---------------------------- *)

NewRead ==
  [pc |-> "new", level |-> "STRONG", bad |-> FALSE, master_host |-> None,
   replicas |-> <<>>, metrics_ok |-> FALSE, hosts |-> <<>>, read_host |-> None,
   data |-> {},
   \* history: the writes that had been answered success when the read arrived
   after |-> {}]

\* execute_query_on_host for a SELECT: the host is reachable and the engine
\* accepts the statement
CanRead(host, bad) == running[host] /\ ~bad

\* the writes that have been answered success = true
Answered == {w \in DOMAIN req : req[w].pc = "done"}

\* a read handler's last step: the query ran on `hosts` in turn, the last one gives
\* the result; HTTP 500 and failures += 1, or the rows and read_count += 1
ReadResult(r, hosts) ==
  LET host == hosts[Len(hosts)]
  IN IF CanRead(host, r.bad)
     THEN [r EXCEPT !.pc = "done", !.hosts = hosts, !.read_host = host,
                    !.data = Rows(host)]
     ELSE [r EXCEPT !.pc = "error", !.hosts = hosts]

CountRead(r) ==
  IF r.pc = "done" THEN [consistency_metrics EXCEPT ![r.level].read_count = @ + 1]
  ELSE IF r.pc = "error" THEN CountFailure(r.level)
  ELSE consistency_metrics

\* a STRONG read that tries a follower when the primary fails
PrimaryThenFollower(master_host, replicas, bad) ==
  IF CanRead(master_host, bad) \/ replicas = <<>> THEN <<master_host>>
  ELSE <<master_host, replicas[1]>>

\* the hosts a STRONG read runs on: the primary, whatever the followers are
PrimaryOnly(master_host, replicas, bad) == <<master_host>>

\* handle_read_query, STRONG: execute on the designated primary
ReadStrong(k, bad) ==
  /\ rd[k].pc = "new"
  /\ rd' = [rd EXCEPT ![k] =
              ReadResult([@ EXCEPT !.level = "STRONG", !.bad = bad, !.after = Answered,
                                   !.master_host = current_master],
                         PrimaryOnly(current_master, current_replicas, bad))]
  /\ consistency_metrics' = CountRead(rd'[k])
  /\ UNCHANGED <<topoVars, dbVars, tsVars, samplerVars, req, adminVars, promotions, aborted,
                 svc, tt, cd, qr>>

\* the hosts an EVENTUAL read runs on: the chosen replica, then the primary if
\* the replica failed
Fallback(first, master_host, bad) ==
  IF CanRead(first, bad) THEN <<first>> ELSE <<first, master_host>>

\* handle_read_query, EVENTUAL, up to the request to /metrics; without followers
\* the primary is read at once
ReadEventualBegin(k, bad) ==
  /\ rd[k].pc = "new"
  /\ LET r == [rd[k] EXCEPT !.level = "EVENTUAL", !.bad = bad, !.after = Answered,
                            !.master_host = current_master,
                            !.replicas = current_replicas]
     IN IF current_replicas = <<>>
        THEN /\ rd' = [rd EXCEPT ![k] = ReadResult(r, <<current_master>>)]
             /\ consistency_metrics' = CountRead(rd'[k])
        ELSE /\ rd' = [rd EXCEPT ![k] = [r EXCEPT !.pc = "metrics"]]
             /\ UNCHANGED consistency_metrics
  /\ UNCHANGED <<topoVars, dbVars, tsVars, samplerVars, req, adminVars, promotions, aborted,
                 svc, tt, cd, qr>>

\* a choice that takes the healthy replica with the highest latency
WorstReplica(replicas, metrics) ==
  LET healthy == SelectSeq(replicas, LAMBDA i : metrics[i].is_healthy)
      Before(a, b) == \/ metrics[healthy[a]].latency_ms > metrics[healthy[b]].latency_ms
                      \/ (metrics[healthy[a]].latency_ms = metrics[healthy[b]].latency_ms
                            /\ a <= b)
  IN IF healthy = <<>> THEN None
     ELSE healthy[CHOOSE a \in 1..Len(healthy) : \A b \in 1..Len(healthy) : Before(a, b)]

\* healthy_replicas.sort(key=latency_ms)[0]: the healthy replica with the lowest
\* latency, the first of them in the followers list; None without a healthy one
BestReplica(replicas, metrics) ==
  LET healthy == SelectSeq(replicas, LAMBDA i : metrics[i].is_healthy)
      Before(a, b) == \/ metrics[healthy[a]].latency_ms < metrics[healthy[b]].latency_ms
                      \/ (metrics[healthy[a]].latency_ms = metrics[healthy[b]].latency_ms
                            /\ a <= b)
  IN IF healthy = <<>> THEN None
     ELSE healthy[CHOOSE a \in 1..Len(healthy) : \A b \in 1..Len(healthy) : Before(a, b)]

\* handle_read_query, EVENTUAL, once /metrics has answered (or failed:
\* metrics_ok = FALSE): pick the replica (random.choice gives `pick` when none was
\* selected), execute there, fall back to the primary read at the start
ReadEventualFinish(k, metrics_ok, pick) ==
  /\ rd[k].pc = "metrics"
  /\ pick \in Range(rd[k].replicas)
  /\ LET best == IF metrics_ok THEN BestReplica(rd[k].replicas, replica_metrics) ELSE None
         first == IF best # None THEN best ELSE pick
     IN /\ best # None => pick = rd[k].replicas[1]
        /\ rd' = [rd EXCEPT ![k] =
                    ReadResult([@ EXCEPT !.metrics_ok = metrics_ok],
                               Fallback(first, rd[k].master_host, rd[k].bad))]
  /\ consistency_metrics' = CountRead(rd'[k])
  /\ UNCHANGED <<topoVars, dbVars, tsVars, samplerVars, req, adminVars, promotions, aborted,
                 svc, tt, cd, qr>>

(* ----------------------- administrative procedures ----------------------- *)

Idle == [pc |-> "idle"]

\* the instance restarted by /admin/restart-old-master: always mysql-instance-1
OldMasterId == 1

\* read_only of an instance when its engine boots: the bootstrap primary comes up
\* writable, the bootstrap followers read-only (SET GLOBAL does not survive a restart)
BootReadOnly(i) == i # OldMasterId

\* docker start: a stopped container boots, a running one is left alone
Started(i) == [running EXCEPT ![i] = TRUE]

StartedReadOnly(i) == IF running[i] THEN read_only ELSE [read_only EXCEPT ![i] = BootReadOnly(i)]

\* /admin/stop-master-only: docker stop of the primary's container
stop_master_only ==
  /\ admin_calls < MaxAdminCalls
  /\ admin_calls' = admin_calls + 1
  /\ running' = [running EXCEPT ![current_master] = FALSE]
  /\ UNCHANGED <<read_only, source, log, last_applied, table_ts, topoVars, tsVars, samplerVars,
                 req, sm, pl, rom, si, promotions, aborted, svc,
                 consistency_metrics, rd, tt, cd, qr>>

\* /admin/stop-master, up to wait_for_container_stop: pick current_replicas[0],
\* docker stop the primary
stop_master_begin ==
  /\ sm.pc = "idle"
  /\ admin_calls < MaxAdminCalls
  /\ admin_calls' = admin_calls + 1
  /\ IF current_replicas = <<>>
     THEN UNCHANGED <<sm, running>>
     ELSE /\ sm' = [pc |-> "stopped", new_master_id |-> current_replicas[1]]
          /\ running' = [running EXCEPT ![current_master] = FALSE]
  /\ UNCHANGED <<read_only, source, log, last_applied, table_ts, topoVars, tsVars, samplerVars,
                 req, pl, rom, si, promotions, aborted, svc,
                 consistency_metrics, rd, tt, cd, qr>>

\* the followers after /admin/stop-master or /admin/promote-leader promoted c
AdminSwapReplicas(c) == Without(current_replicas, c)

\* /admin/stop-master, steps 3 and 4: promote the candidate, update the state
stop_master_finish(ok) ==
  /\ sm.pc = "stopped"
  /\ sm' = Idle
  /\ LET c == sm.new_master_id
     IN IF ~PromoteOk(c, ok)
        THEN /\ aborted' = [aborted EXCEPT !["stop_master"] = @ + 1]
             /\ UNCHANGED <<topoVars, source, read_only, promotions>>
        ELSE /\ source' = PromotedSource(c)
             /\ read_only' = PromotedReadOnly(c)
             /\ promotions' = promotions + 1
             /\ current_master' = c
             /\ current_replicas' = AdminSwapReplicas(c)
             /\ UNCHANGED aborted
  /\ UNCHANGED <<running, log, last_applied, table_ts, tsVars, samplerVars, req, pl, rom, si,
                 admin_calls, svc,
                 consistency_metrics, rd, tt, cd, qr>>

\* /admin/promote-leader, step 1: find the target, promote it, then sleep(2)
promote_leader_begin(new_leader, ok) ==
  /\ pl.pc = "idle"
  /\ admin_calls < MaxAdminCalls
  /\ admin_calls' = admin_calls + 1
  /\ IF new_leader \notin Range(current_replicas)
     THEN UNCHANGED <<pl, source, read_only, promotions, aborted>>
     ELSE IF ~PromoteOk(new_leader, ok)
     THEN /\ aborted' = [aborted EXCEPT !["promote_leader"] = @ + 1]
          /\ UNCHANGED <<pl, source, read_only, promotions>>
     ELSE /\ pl' = [pc |-> "promoted", new_leader_id |-> new_leader,
                    other_replicas |-> Without(current_replicas, new_leader)]
          /\ source' = PromotedSource(new_leader)
          /\ read_only' = PromotedReadOnly(new_leader)
          /\ promotions' = promotions + 1
          /\ UNCHANGED aborted
  /\ UNCHANGED <<running, log, last_applied, table_ts, topoVars, tsVars, samplerVars, req, sm, rom, si,
                 svc,
                 consistency_metrics, rd, tt, cd, qr>>

\* CHANGE MASTER TO on every other replica whose container answers
Rewired(other_replicas, new_master) ==
  [i \in Inst |-> IF i \in Range(other_replicas) /\ running[i] THEN new_master ELSE source[i]]

\* /admin/promote-leader, steps 2 and 3: rewire the other replicas, update the state
promote_leader_finish ==
  /\ pl.pc = "promoted"
  /\ pl' = Idle
  /\ source' = Rewired(pl.other_replicas, pl.new_leader_id)
  /\ current_master' = pl.new_leader_id
  /\ current_replicas' = AdminSwapReplicas(pl.new_leader_id)
  /\ UNCHANGED <<running, read_only, log, last_applied, table_ts, tsVars, samplerVars, req, sm, rom, si,
                 admin_calls, promotions, aborted, svc,
                 consistency_metrics, rd, tt, cd, qr>>

\* /admin/restart-old-master, up to sleep(5): docker start of mysql-instance-1
restart_old_master_begin ==
  /\ rom.pc = "idle"
  /\ admin_calls < MaxAdminCalls
  /\ admin_calls' = admin_calls + 1
  /\ IF OldMasterId \in Range(current_replicas)
     THEN UNCHANGED <<rom, running, read_only>>
     ELSE /\ rom' = [pc |-> "started", new_master_host |-> current_master]
          /\ running' = Started(OldMasterId)
          /\ read_only' = StartedReadOnly(OldMasterId)
  /\ UNCHANGED <<source, log, last_applied, table_ts, topoVars, tsVars, samplerVars, req, sm, pl, si, promotions, aborted, svc,
                 consistency_metrics, rd, tt, cd, qr>>

\* /admin/restart-old-master, steps 3 and 4: demote_master_to_replica, then append
restart_old_master_finish ==
  /\ rom.pc = "started"
  /\ rom' = Idle
  /\ IF ~running[OldMasterId]
     THEN UNCHANGED <<read_only, source, current_replicas>>
     ELSE /\ read_only' = [read_only EXCEPT ![OldMasterId] = TRUE]
          /\ source' = [source EXCEPT ![OldMasterId] = rom.new_master_host]
          /\ current_replicas' = Append(current_replicas, OldMasterId)
  /\ UNCHANGED <<running, log, last_applied, table_ts, current_master, tsVars, samplerVars, req,
                 sm, pl, si, admin_calls, promotions, aborted, svc,
                 consistency_metrics, rd, tt, cd, qr>>

\* SHOW SLAVE STATUS reports Slave_IO_Running: Yes and Slave_SQL_Running: Yes: the
\* instance runs and is connected to a running source
Replicating(i) == running[i] /\ source[i] # None /\ running[source[i]]

\* /admin/start-instance, up to wait_for_mysql_ready: nothing to do for the primary
\* or for a listed follower that runs and replicates, else docker start
start_instance_begin(instance_id) ==
  /\ si.pc = "idle"
  /\ admin_calls < MaxAdminCalls
  /\ admin_calls' = admin_calls + 1
  /\ IF \/ instance_id = current_master
        \/ (instance_id \in Range(current_replicas) /\ Replicating(instance_id))
     THEN UNCHANGED <<si, running, read_only>>
     ELSE /\ si' = [pc |-> "started", instance_id |-> instance_id,
                    current_master_host |-> current_master]
          /\ running' = Started(instance_id)
          /\ read_only' = StartedReadOnly(instance_id)
  /\ UNCHANGED <<source, log, last_applied, table_ts, topoVars, tsVars, samplerVars, req, sm, pl, rom,
                 promotions, aborted, svc, consistency_metrics, rd, tt, cd, qr>>

\* configure_replica returns True: the commands ran (ok) and the replication
\* threads of the instance were seen running against master_host
Configured(instance_id, master_host, ok) ==
  running[instance_id] /\ ok /\ running[master_host]

\* /admin/start-instance, steps 2 to 4: wait for the engine, configure_replica
\* against the primary read at the start, append unless already listed
start_instance_finish(ok) ==
  /\ si.pc = "started"
  /\ si' = Idle
  /\ LET i == si.instance_id
         m == si.current_master_host
     IN /\ IF running[i] /\ ok
           THEN /\ read_only' = [read_only EXCEPT ![i] = TRUE]
                /\ source' = [source EXCEPT ![i] = m]
           ELSE UNCHANGED <<read_only, source>>
        /\ IF Configured(i, m, ok) /\ i \notin Range(current_replicas)
           THEN current_replicas' = Append(current_replicas, i)
           ELSE UNCHANGED current_replicas
  /\ UNCHANGED <<running, log, last_applied, table_ts, current_master, tsVars, samplerVars, req,
                 sm, pl, rom, admin_calls, promotions, aborted, svc, consistency_metrics, rd,
                 tt, cd, qr>>

(* ------------------------------ /admin/clear-data ------------------------ *)

\* POST /admin/clear-data up to its first await: the data tables of the primary
\* are emptied, its last_applied_timestamp is set to 0 and the counters of
\* /consistency-metrics are zeroed; a primary that cannot be written ends the
\* call with success = false (history, before: the write requests and the
\* topology as the call found them)
clear_test_data_begin ==
  /\ cd.pc \in {"idle", "done"}
  /\ admin_calls < MaxAdminCalls
  /\ admin_calls' = admin_calls + 1
  /\ LET master_host == current_master
     IN IF CanWrite(master_host, FALSE)
        THEN /\ log' = [log EXCEPT ![master_host] = Append(@, ClearTxn(admin_calls + 1))]
             /\ last_applied' = [last_applied EXCEPT ![master_host] = 0]
             /\ table_ts' = [table_ts EXCEPT ![master_host] = KeptTableRows(@)]
             /\ consistency_metrics' = ZeroCounters
             /\ cd' = [pc |-> "reset", shard |-> 1, timestamp_reset |-> TRUE,
                       before |-> <<req, current_master, current_replicas>>]
        ELSE /\ cd' = [pc |-> "done", success |-> FALSE]
             /\ UNCHANGED <<log, last_applied, table_ts, consistency_metrics>>
  /\ UNCHANGED <<running, read_only, source, topoVars, tsVars, samplerVars, req, sm, pl,
                 rom, si, promotions, aborted, svc, rd, tt, qr>>

\* POST /admin/clear-data, the loop over TIMESTAMP_SERVICES: POST /reset on the
\* next shard, which answers (ok) or not
clear_test_data_reset(ok) ==
  /\ cd.pc = "reset"
  /\ IF ok THEN reset_counter(cd.shard) ELSE UNCHANGED tsVars
  /\ cd' = IF cd.shard < NumShards
             THEN [cd EXCEPT !.shard = @ + 1, !.timestamp_reset = @ /\ ok]
             ELSE [pc |-> "done", success |-> TRUE,
                   timestamp_reset |-> cd.timestamp_reset /\ ok, before |-> cd.before]
  /\ UNCHANGED <<topoVars, dbVars, samplerVars, req, adminVars, promotions, aborted, svc,
                 consistency_metrics, rd, tt, qr>>

(* ------------------------------ query_parser ----------------------------- *)

\* a statement is the sequence of its characters
Blank == {" ", "\t"}

Lower == <<"a", "c", "d", "e", "i", "l", "n", "p", "r", "s", "t", "u", "x">>

Capital == <<"A", "C", "D", "E", "I", "L", "N", "P", "R", "S", "T", "U", "X">>

\* str.upper on one character
upper_char(c) ==
  IF \E k \in 1..Len(Lower) : Lower[k] = c
    THEN Capital[CHOOSE k \in 1..Len(Lower) : Lower[k] = c]
    ELSE c

\* str.upper
upper(q) == [k \in 1..Len(q) |-> upper_char(q[k])]

\* str.strip: the leading and trailing whitespace is dropped
strip(q) ==
  LET ink == {k \in 1..Len(q) : q[k] \notin Blank}
  IN IF ink = {} THEN <<>>
     ELSE SubSeq(q, CHOOSE k \in ink : \A j \in ink : k <= j,
                    CHOOSE k \in ink : \A j \in ink : j <= k)

\* a comparison that stops at the end of the shorter string
startswith_zip(s, prefix) ==
  \A j \in 1..Len(prefix) : j <= Len(s) => s[j] = prefix[j]

\* str.startswith
startswith(s, prefix) ==
  /\ Len(s) >= Len(prefix)
  /\ \A j \in 1..Len(prefix) : s[j] = prefix[j]

KwSELECT == <<"S", "E", "L", "E", "C", "T">>

KwINSERT == <<"I", "N", "S", "E", "R", "T">>

KwUPDATE == <<"U", "P", "D", "A", "T", "E">>

KwDELETE == <<"D", "E", "L", "E", "T", "E">>

\* parse_query: the query type
parse_query(query) ==
  LET normalized == upper(strip(query))
  IN IF startswith(normalized, KwSELECT) THEN "SELECT"
     ELSE IF startswith(normalized, KwINSERT) THEN "INSERT"
     ELSE IF startswith(normalized, KwUPDATE) THEN "UPDATE"
     ELSE IF startswith(normalized, KwDELETE) THEN "DELETE"
     ELSE "UNKNOWN"

is_write_query(query_type) == query_type \in {"INSERT", "UPDATE", "DELETE"}

is_read_query(query_type) == query_type = "SELECT"

\* the statements a client sends: some whitespace, a first word, a rest
Leads == {<<>>, <<" ">>, <<"\t", " ">>}

Heads ==
  {KwSELECT, <<"s", "e", "l", "e", "c", "t">>, <<"I", "n", "s", "e", "r", "t">>, KwUPDATE,
   <<"d", "e", "l", "e", "t", "e">>, <<"D", "R", "O", "P">>, <<"S", "E", "L", "E", "C">>,
   <<"s", "e", "t">>, <<"x", "S", "E", "L", "E", "C", "T">>}

Tails == {<<>>, <<" ">>, <<"E", "D">>, <<" ", "x">>}

Statements ==
  {l \o h \o t : l \in Leads, h \in Heads, t \in Tails} \cup {<<>>, <<" ">>, <<" ", "\t">>}

\* POST /query: the statement is stripped and classified; an empty or an
\* unsupported one is answered 400, another one goes to its handler
execute_query ==
  /\ qr.pc = "received"
  /\ LET query == strip(qr.query)
         query_type == parse_query(query)
     IN qr' = IF query = <<>>
                THEN [qr EXCEPT !.pc = "rejected", !.status_code = 400,
                                !.detail = "Query cannot be empty"]
              ELSE IF query_type = "UNKNOWN"
                THEN [qr EXCEPT !.pc = "rejected", !.status_code = 400,
                                !.detail = "Unsupported query type"]
              ELSE IF is_write_query(query_type) THEN [qr EXCEPT !.pc = "write"]
              ELSE IF is_read_query(query_type) THEN [qr EXCEPT !.pc = "read"]
              ELSE [qr EXCEPT !.pc = "rejected", !.status_code = 400,
                              !.detail = "Invalid query type"]
  /\ UNCHANGED <<topoVars, dbVars, tsVars, samplerVars, req, adminVars, promotions, aborted,
                 svc, consistency_metrics, rd, tt, cd>>

(* ------------------------- the /table-timestamps views ------------------- *)

Views == {"coordinator", "sampler"}

\* get_table_timestamps for the one table the writes touch: the row's
\* last_timestamp, 0 stands for no row or no answer
get_table_timestamps(i) == IF running[i] THEN table_ts[i] ELSE 0

\* global_lag and table_lag[table]: the plain difference
Lag(master_ts, instance_ts) == master_ts - instance_ts

\* GET /table-timestamps of the coordinator or of the sampler, first part: the
\* primary each of them knows is read
TableTimestampsBegin(view) ==
  /\ tt.pc = "idle"
  /\ LET master_host == IF view = "coordinator" THEN current_master
                        ELSE current_master_host
     IN tt' = [pc |-> "master_read", view |-> view,
               instances |-> IF view = "coordinator" THEN current_replicas ELSE MetricIds,
               master_global_ts |-> get_last_applied_timestamp(master_host),
               master_table_ts |-> get_table_timestamps(master_host)]
  /\ UNCHANGED <<topoVars, dbVars, tsVars, samplerVars, req, adminVars, promotions, aborted,
                 svc, consistency_metrics, rd, cd, qr>>

\* GET /table-timestamps, second part: the listed instances are read and the
\* lags published; table_lag has an entry only for a table the primary reported
TableTimestampsEnd ==
  /\ tt.pc = "master_read"
  /\ tt' = [pc |-> "published", view |-> tt.view,
            global_lag |-> [i \in Range(tt.instances) |->
                              Lag(tt.master_global_ts, get_last_applied_timestamp(i))],
            table_lag |-> [i \in IF tt.master_table_ts = 0 THEN {}
                                  ELSE Range(tt.instances) |->
                             Lag(tt.master_table_ts, get_table_timestamps(i))]]
  /\ UNCHANGED <<topoVars, dbVars, tsVars, samplerVars, req, adminVars, promotions, aborted,
                 svc, consistency_metrics, rd, cd, qr>>

(* ----------------------------- specifications ---------------------------- *)

\* the three ways a failover starts
FailoverPaths == {"write", "stop_master", "promote_leader"}

\* no ranking service has been called directly
NoCall == [call |-> "none"]

(* ------------------- the ranking services called directly ---------------- *)

\* the entries replica_metrics can hold for one instance: the initial entry, a
\* sampled healthy entry (is_healthy = latency < 5000), a sampled unhealthy one
\* (latency 9999, uptime 0, one crash counted)
SampledEntries(uptimes) ==
  {InitMetrics}
  \cup {[latency_ms |-> l, replication_lag |-> g, uptime_seconds |-> u, crash_count |-> 0,
          start_time |-> 0, is_healthy |-> l < UnhealthyThreshold] :
           l \in 1..MaxLatency, g \in 0..MaxLag, u \in uptimes}
  \cup {[latency_ms |-> FailLatency, replication_lag |-> MaxLag, uptime_seconds |-> 0,
          crash_count |-> 1, start_time |-> 0,
          is_healthy |-> FailLatency < UnhealthyThreshold]}

\* Cabinet reads latency, lag and health
CabinetEntries == SampledEntries({SamplePeriod})

\* SEER reads the uptime and the crash count as well
SeerEntries == SampledEntries({0, SamplePeriod})

\* replica_metrics has no entry for the instance: the sampler thread has not
\* initialised it yet
NoEntry ==
  [latency_ms |-> 0, replication_lag |-> 0, uptime_seconds |-> 0, crash_count |-> 0,
   start_time |-> 0, is_healthy |-> FALSE]

\* the exclude_replicas of an /elect-leader request: nothing or one instance
Exclusions == {{}} \cup {{i} : i \in Inst}

\* POST /select-quorum
SelectQuorumCall ==
  /\ svc.call = "request"
  /\ LET r == select_quorum(svc.replicas, replica_metrics)
     IN svc' = [call |-> "select_quorum", replicas |-> svc.replicas,
                ok |-> r.ok, quorum |-> r.quorum]
  /\ UNCHANGED <<topoVars, dbVars, tsVars, samplerVars, req, adminVars, promotions, aborted,
                 consistency_metrics, rd, tt, cd, qr>>

\* POST /elect-leader with exclude_replicas = exclude
ElectLeaderCall(exclude) ==
  /\ svc.call = "request"
  /\ LET r == elect_leader(svc.replicas, replica_metrics, exclude)
     IN svc' = [call |-> "elect_leader", replicas |-> svc.replicas, exclude |-> exclude,
                ok |-> r.ok, leader_id |-> r.leader_id]
  /\ UNCHANGED <<topoVars, dbVars, tsVars, samplerVars, req, adminVars, promotions, aborted,
                 consistency_metrics, rd, tt, cd, qr>>

\* the state after start-up, with n write requests still to arrive, but for
\* the sampler's snapshot
InitCluster(n) ==
  /\ current_master = 1
  /\ current_replicas = <<2, 3, 4>>
  /\ running = [i \in Inst |-> TRUE]
  /\ read_only = [i \in Inst |-> BootReadOnly(i)]
  /\ source = [i \in Inst |-> IF i = 1 THEN None ELSE 1]
  /\ log = [i \in Inst |-> <<>>]
  /\ last_applied = [i \in Inst |-> 0]
  /\ table_ts = [i \in Inst |-> 0]
  /\ current_counter = [s \in Shards |-> StartValue(s)]
  /\ current_master_host = 1
  /\ now = 0
  /\ req = [w \in 1..n |-> NewReq]
  /\ sm = Idle
  /\ pl = Idle
  /\ rom = Idle
  /\ si = Idle
  /\ tt = Idle
  /\ cd = Idle
  /\ admin_calls = 0
  /\ issued = {}
  /\ duplicate = FALSE
  /\ resets = FALSE
  /\ served = [s \in Shards |-> [k |-> 0, timestamp |-> None]]
  /\ promotions = 0
  /\ aborted = [p \in FailoverPaths |-> 0]
  /\ consistency_metrics = ZeroCounters
  /\ rd = [k \in 1..MaxReads |-> NewRead]

InitWith(n) ==
  /\ InitCluster(n)
  /\ qr = Idle
  /\ replica_metrics = [i \in Inst |-> InitMetrics]
  /\ svc = NoCall

\* a ranking service is about to be called on a /metrics response that lists the
\* instances with an entry, in insertion order; the entries are drawn from `entries`
InitSnapshot(entries) ==
  /\ InitCluster(0)
  /\ qr = Idle
  /\ replica_metrics \in [Inst -> entries \cup {NoEntry}]
  /\ svc = [call |-> "request",
            replicas |-> SelectSeq(MetricIds, LAMBDA i : replica_metrics[i] # NoEntry)]

Init == InitWith(MaxWrites)

\* the write pipeline: request handlers, native replication, the sampler
WriteNext ==
  \/ \E w \in DOMAIN req, level \in Levels, bad \in BOOLEAN, s \in Shards :
       WriteGetTimestamp(w, level, bad, s)
  \/ \E w \in DOMAIN req : WriteNoTimestamp(w)
  \/ \E w \in DOMAIN req, up \in BOOLEAN : WriteGetQuorum(w, up)
  \/ \E w \in DOMAIN req : WriteExecute(w)
  \/ \E w \in DOMAIN req : WriteElect(w)
  \/ \E w \in DOMAIN req, ok \in BOOLEAN : WriteFailover(w, ok)
  \/ \E w \in DOMAIN req : WriteCatchupPoll(w)
  \/ \E w \in DOMAIN req : WriteCatchupDeadline(w)
  \/ \E i \in Inst : Replicate(i)
  \/ \E lat \in LatencyProfiles : now < MaxRounds /\ collect_metrics(lat, TRUE)

\* no write request is being handled: the client sends a read when its writes
\* have been answered
ClientIdle == \A w \in DOMAIN req : req[w].pc \in {"new", "done", "error"}

\* the read requests of a client that sends one request at a time
ReadNext ==
  \/ \E k \in DOMAIN rd, bad \in BOOLEAN : ClientIdle /\ ReadStrong(k, bad)
  \/ \E k \in DOMAIN rd, bad \in BOOLEAN : ClientIdle /\ ReadEventualBegin(k, bad)
  \/ \E k \in DOMAIN rd, metrics_ok \in BOOLEAN, pick \in Inst :
       ReadEventualFinish(k, metrics_ok, pick)

\* the administrative endpoints
AdminNext ==
  \/ stop_master_only
  \/ stop_master_begin
  \/ \E ok \in BOOLEAN : stop_master_finish(ok)
  \/ \E new_leader \in Inst, ok \in BOOLEAN : promote_leader_begin(new_leader, ok)
  \/ promote_leader_finish
  \/ restart_old_master_begin
  \/ restart_old_master_finish
  \/ \E instance_id \in Inst : start_instance_begin(instance_id)
  \/ \E ok \in BOOLEAN : start_instance_finish(ok)

\* the allocator shards alone
TimestampNext ==
  \/ \E s \in Shards : /\ current_counter[s] < StartValue(s) + Stride * MaxIssued
                        /\ get_timestamp(s)
                        /\ UNCHANGED <<topoVars, dbVars, samplerVars, req, adminVars,
                                       promotions, aborted, svc, consistency_metrics, rd, tt,
                                       cd, qr>>
  \/ \E s \in Shards : /\ reset_counter(s)
                        /\ UNCHANGED <<topoVars, dbVars, samplerVars, req, adminVars,
                                       promotions, aborted, svc, consistency_metrics, rd, tt,
                                       cd, qr>>

Next == WriteNext \/ AdminNext

Spec == Init /\ [][Next]_vars

SpecWrites == InitWith(MaxPipelineWrites) /\ [][WriteNext]_vars

SpecTs == Init /\ [][TimestampNext]_vars

\* the write pipeline with the clock of wait_for_quorum_catchup: time passes, so
\* the loop condition (time.time() - start_time) < timeout_seconds turns false
SpecWait ==
  /\ Init
  /\ [][WriteNext]_vars
  /\ \A w \in 1..MaxWrites : WF_vars(WriteCatchupDeadline(w))

\* some read request has not been answered yet
ReadPending == \E k \in DOMAIN rd : rd[k].pc \in {"new", "metrics"}

\* the read path observed until the reads are answered: the write pipeline, a
\* primary whose container stops, a planned promotion, and the reads
ReadsNext ==
  \/ ReadPending /\ WriteNext
  \/ ReadPending /\ stop_master_only
  \/ \E new_leader \in Inst, ok \in BOOLEAN :
       ReadPending /\ promote_leader_begin(new_leader, ok)
  \/ ReadPending /\ promote_leader_finish
  \/ ReadNext

SpecReads == Init /\ [][ReadsNext]_vars

\* the coordinator is inside its /table-timestamps handler, which does not
\* suspend: no other handler of the coordinator runs
ViewBusy == tt.pc = "master_read" /\ tt.view = "coordinator"

\* the lag views beside the write pipeline and a primary whose container stops
LagNext ==
  \/ ~ViewBusy /\ WriteNext
  \/ ~ViewBusy /\ stop_master_only
  \/ \E i \in Inst : Replicate(i)
  \/ \E view \in Views : TableTimestampsBegin(view)
  \/ TableTimestampsEnd

SpecLag == Init /\ [][LagNext]_vars

\* the latencies a round of the sampler alone can measure: as above, or one
\* instance answers after exactly the health threshold
SamplerProfiles ==
  LatencyProfiles \cup {[i \in Inst |-> IF i = f THEN UnhealthyThreshold ELSE 1] : f \in Inst}

\* the sampler alone, beside a primary that is stopped and restarted
SamplerNext ==
  \/ \E lat \in SamplerProfiles, status_ok \in BOOLEAN :
       now < MaxSamplerRounds /\ collect_metrics(lat, status_ok)
  \/ stop_master_only
  \/ restart_old_master_begin
  \/ restart_old_master_finish

SpecSampler == Init /\ [][SamplerNext]_vars

\* the data-clear beside the write requests and native replication, a primary
\* whose container stops (the next write fails over) and the old primary's return
ClearNext ==
  \/ \E w \in DOMAIN req, level \in Levels, bad \in BOOLEAN, s \in Shards :
       WriteGetTimestamp(w, level, bad, s)
  \/ \E w \in DOMAIN req : WriteNoTimestamp(w)
  \/ \E w \in DOMAIN req, up \in BOOLEAN : WriteGetQuorum(w, up)
  \/ \E w \in DOMAIN req : WriteExecute(w)
  \/ \E w \in DOMAIN req : WriteElect(w)
  \/ \E w \in DOMAIN req, ok \in BOOLEAN : WriteFailover(w, ok)
  \/ \E w \in DOMAIN req : WriteCatchupPoll(w)
  \/ \E w \in DOMAIN req : WriteCatchupDeadline(w)
  \/ \E i \in Inst : Replicate(i)
  \/ clear_test_data_begin
  \/ \E ok \in BOOLEAN : clear_test_data_reset(ok)
  \/ stop_master_only
  \/ restart_old_master_begin
  \/ restart_old_master_finish

SpecClear == Init /\ [][ClearNext]_vars

\* a /query request arrives with a statement and a consistency level
InitQuery ==
  /\ InitCluster(MaxWrites)
  /\ replica_metrics = [i \in Inst |-> InitMetrics]
  /\ svc = NoCall
  /\ qr \in {[pc |-> "received", query |-> q, consistency |-> level, status_code |-> 200,
              detail |-> ""] : q \in Statements, level \in Levels}

\* one /query request: the classification, then the first steps of the handler
\* the statement is routed to
QueryNext ==
  \/ execute_query
  \/ \E bad \in BOOLEAN, s \in Shards :
       qr.pc = "write" /\ WriteGetTimestamp(1, qr.consistency, bad, s)
  \/ qr.pc = "write" /\ WriteNoTimestamp(1)
  \/ \E up \in BOOLEAN : qr.pc = "write" /\ WriteGetQuorum(1, up)
  \/ \E bad \in BOOLEAN : qr.pc = "read" /\ qr.consistency = "STRONG" /\ ReadStrong(1, bad)
  \/ \E bad \in BOOLEAN :
       qr.pc = "read" /\ qr.consistency = "EVENTUAL" /\ ReadEventualBegin(1, bad)
  \/ \E metrics_ok \in BOOLEAN, pick \in Inst : ReadEventualFinish(1, metrics_ok, pick)

SpecQuery == InitQuery /\ [][QueryNext]_vars

CabinetNext == SelectQuorumCall

SpecCabinet == InitSnapshot(CabinetEntries) /\ [][CabinetNext]_vars

SeerNext == \E exclude \in Exclusions : ElectLeaderCall(exclude)

SpecSeer == InitSnapshot(SeerEntries) /\ [][SeerNext]_vars

(* ------------------------------- properties ------------------------------ *)

\* the write was answered success = true with quorum_achieved = true
Acked(w) == req[w].pc = "done" /\ req[w].quorum_achieved = "yes"

\* the step in which a failover procedure that promoted a candidate swaps the topology
WriteSwapStep(w) == req[w].pc = "promote" /\ req'[w].promoted # None

StopMasterSwapStep == sm.pc = "stopped" /\ sm'.pc = "idle" /\ promotions' # promotions

PromoteLeaderSwapStep == pl.pc = "promoted" /\ pl'.pc = "idle"

\* the running instances that accept writes
WritableIn(run, ro) == {i \in Inst : run[i] /\ ~ro[i]}

\* C1: when a STRONG write with timestamp t is answered quorum_achieved = true,
\* every member of the quorum Cabinet returned for it stores last_applied >= t
QuorumMembersCaughtUp ==
  \A w \in DOMAIN req : Acked(w) =>
    \A k \in 1..Len(req[w].cabinet_quorum) :
      last_applied[req[w].cabinet_quorum[k]] >= req[w].timestamp

\* C2: when a STRONG write is answered quorum_achieved = true, the write itself
\* has been applied on every quorum member the coordinator waited for
QuorumMembersHoldWrite ==
  \A w \in DOMAIN req : Acked(w) =>
    \A k \in 1..Len(req[w].targets) : w \in Range(log[req[w].targets[k]])

\* C3: two writes the coordinator applied on the same primary, one before the
\* other, carry timestamps in that order
PrimaryAppliesInTimestampOrder ==
  \A i \in Inst : \A k, l \in 1..Len(log[i]) :
    (k < l /\ req[log[i][k]].applied_on = i /\ req[log[i][l]].applied_on = i)
      => req[log[i][k]].timestamp < req[log[i][l]].timestamp

\* C4: as long as no shard was reset, no /timestamp response repeats a value
\* that a /timestamp response of either shard already carried
TimestampsDistinct == ~resets => ~duplicate

\* C4 witness: both shards have answered, several times, and none was reset
BothShardsIssued ==
  /\ ~resets
  /\ \A s \in Shards : current_counter[s] >= StartValue(s) + 2 * Stride
  /\ Cardinality(issued) >= 4

PrimaryTimestampMonotone ==
  [][last_applied'[current_master'] >= last_applied[current_master]]_vars

\* C7: while /admin/promote-leader is between the promotion of its candidate
\* and its swap, the failover of a write whose statement the engine accepts
\* issues no promotion and changes neither the primary nor the followers
FailoversDoNotOverlap ==
  [][(/\ pl.pc = "promoted" /\ pl' = pl /\ sm' = sm /\ rom' = rom
      /\ \A w \in DOMAIN req : ~req[w].bad) =>
       (promotions' = promotions /\ UNCHANGED topoVars)]_vars

\* C8: a write whose statement was refused by a reachable, writable primary
\* promotes no instance
RejectedStatementPromotesNobody ==
  \A w \in DOMAIN req : req[w].promoted # None => req[w].primary_lost

SingleWriterAfterFailover ==
  [][((\E w \in DOMAIN req : WriteSwapStep(w)) \/ StopMasterSwapStep \/ PromoteLeaderSwapStep) =>
       Cardinality(WritableIn(running', read_only')) <= 1]_vars

\* C11: the step that ends a successful failover leaves every follower whose
\* container runs streaming from the new primary, whichever way the failover
\* started
FollowersStreamFromNewPrimary ==
  [][((\E w \in DOMAIN req : WriteSwapStep(w)) \/ StopMasterSwapStep \/ PromoteLeaderSwapStep) =>
       \A k \in 1..Len(current_replicas') :
         running'[current_replicas'[k]] => source'[current_replicas'[k]] = current_master']_vars

\* C12: when the promotion command fails the failover is abandoned: the step
\* leaves the primary and the followers as they were, the write request (if
\* any) ends with an error and no administrative procedure goes on; a failover
\* goes past its promotion only when the candidate's container was running
PromotionFailureAborts ==
  [][/\ aborted' # aborted =>
          /\ current_master' = current_master
          /\ current_replicas' = current_replicas
          /\ promotions' = promotions
          /\ \A w \in DOMAIN req : req'[w] # req[w] =>
                req'[w].pc = "error" /\ req'[w].promoted = None
          /\ sm' = sm \/ sm' = Idle
          /\ pl' = pl
     /\ \A w \in DOMAIN req : WriteSwapStep(w) => running[req[w].elected]
     /\ StopMasterSwapStep => running[sm.new_master_id]
     /\ (pl.pc = "idle" /\ pl'.pc = "promoted") => running[pl'.new_leader_id]]_vars

\* C12 witness: a promotion has failed on each of the three paths, and the
\* write that asked for the failover was answered with an error
PromotionFailedOnEveryPath ==
  /\ \A p \in FailoverPaths : aborted[p] > 0
  /\ \E w \in DOMAIN req : req[w].pc = "error" /\ req[w].elected # None

\* C13: one write request calls execute_query_on_host on a primary at most
\* twice and asks for at most one election and one promotion; the second apply
\* is the retry on the primary this request promoted, and a request whose retry
\* failed has ended with an error
OneFailoverPerWrite ==
  \A w \in DOMAIN req :
    /\ req[w].applies <= 2
    /\ req[w].elections <= 1
    /\ req[w].promote_cmds <= 1
    /\ req[w].applies = 2 <=> req[w].promoted # None
    /\ req[w].promoted # None => req[w].elections = 1 /\ req[w].promote_cmds = 1
    /\ (req[w].applies = 2 /\ req[w].applied_on = None) => req[w].pc = "error"

\* C13 witness: a request failed over once, its retry on the new primary
\* failed too, and it was answered with an error
RetryFailedAfterFailover ==
  \E w \in DOMAIN req :
    /\ req[w].pc = "error"
    /\ req[w].applies = 2
    /\ req[w].promoted # None
    /\ req[w].applied_on = None

\* C14: the leader SEER returns to a write whose statement the engine accepts
\* is one of the coordinator's current followers, and is not the designated
\* primary
ElectedLeaderIsFollower ==
  [][\A w \in DOMAIN req :
       (req[w].pc = "elect" /\ req'[w].pc = "promote" /\ ~req[w].bad) =>
         /\ req'[w].elected \in Range(current_replicas)
         /\ req'[w].elected # current_master]_vars

\* the candidates of the /elect-leader call: the snapshot's instances that the
\* request does not exclude
Candidates == {i \in Range(svc.replicas) : i \notin svc.exclude}

\* C15: a leader returned by /elect-leader is a healthy candidate whose total
\* score is positive; when no candidate is healthy (or none is left after the
\* exclusions) the call fails
LeaderIsHealthy ==
  svc.call = "elect_leader" =>
    /\ svc.ok =>
         /\ svc.leader_id \in Candidates
         /\ replica_metrics[svc.leader_id].is_healthy
         /\ FracGT(calculate_replica_score(replica_metrics[svc.leader_id]), <<0, 1>>)
    /\ (\A i \in Candidates : ~replica_metrics[i].is_healthy) => ~svc.ok

\* C15 witness: SEER returned a leader although some candidate was unhealthy
LeaderAmongUnhealthy ==
  /\ svc.call = "elect_leader" /\ svc.ok
  /\ \E i \in Candidates : ~replica_metrics[i].is_healthy

\* position of instance i in the /metrics response
Pos(i) == CHOOSE k \in 1..Len(svc.replicas) : svc.replicas[k] = i

\* C16: the leader returned by /elect-leader is not excluded, no candidate has
\* a higher total score, and every other candidate with the same score comes
\* after it in the snapshot's id order
LeaderHasHighestScore ==
  (svc.call = "elect_leader" /\ svc.ok) =>
    /\ svc.leader_id \in Range(svc.replicas)
    /\ svc.leader_id \notin svc.exclude
    /\ \A i \in Candidates :
         LET mine == calculate_replica_score(replica_metrics[i])
             best == calculate_replica_score(replica_metrics[svc.leader_id])
         IN /\ ~FracGT(mine, best)
            /\ (i # svc.leader_id /\ ~FracGT(best, mine)) => Pos(svc.leader_id) < Pos(i)

\* C16 witness: the first instance of the snapshot was excluded, and the leader
\* is the first of two candidates with the same highest score while another
\* candidate scores lower
LeaderWonTie ==
  /\ svc.call = "elect_leader" /\ svc.ok
  /\ svc.exclude # {} /\ svc.exclude \subseteq Range(svc.replicas)
  /\ \E i, j \in Candidates :
       LET best == calculate_replica_score(replica_metrics[svc.leader_id])
       IN /\ i # svc.leader_id
          /\ ~FracGT(best, calculate_replica_score(replica_metrics[i]))
          /\ FracGT(best, calculate_replica_score(replica_metrics[j]))

\* C17: every member of the quorum Cabinet returns to a STRONG write is one of
\* the coordinator's current followers, and the designated primary is not a
\* member
QuorumMembersAreFollowers ==
  [][\A w \in DOMAIN req :
       (req[w].pc = "quorum" /\ req'[w].pc = "apply") =>
         /\ Range(req'[w].cabinet_quorum) \subseteq Range(current_replicas)
         /\ current_master \notin Range(req'[w].cabinet_quorum)]_vars

\* the instances of the /metrics response that are healthy
Alive == {i \in Range(svc.replicas) : replica_metrics[i].is_healthy}

\* the least integer k with 2 * k >= n + 1
Majority(n) == CHOOSE k \in 0..(n + 1) : 2 * k >= n + 1 /\ 2 * (k - 1) < n + 1

\* C18: a quorum returned by /select-quorum lists ceil((N + 1) / 2) pairwise
\* distinct instances of the snapshot, N being the number of instances in the
\* snapshot; and one is returned whenever that many instances are healthy
QuorumIsMajoritySized ==
  svc.call = "select_quorum" =>
    LET N == Len(svc.replicas)
    IN /\ svc.ok =>
            /\ Len(svc.quorum) = Majority(N)
            /\ Range(svc.quorum) \subseteq Range(svc.replicas)
            /\ \A a, b \in 1..Len(svc.quorum) : a # b => svc.quorum[a] # svc.quorum[b]
       /\ Cardinality(Alive) >= Majority(N) => svc.ok

\* C18 witness: a quorum of three was returned for a snapshot of four instances
\* of which exactly three are healthy
QuorumOfThreeOfFour ==
  /\ svc.call = "select_quorum" /\ svc.ok
  /\ Len(svc.replicas) = NumInstances
  /\ Cardinality(Alive) = Majority(NumInstances)
  /\ Len(svc.quorum) = Cardinality(Alive)

\* instance i weighs more than instance j: weight 0 for an unhealthy instance,
\* 1 / (latency + lag + 1) for a healthy one
Heavier(i, j) ==
  LET mi == replica_metrics[i]
      mj == replica_metrics[j]
  IN mi.is_healthy /\ (~mj.is_healthy \/ mi.latency_ms + mi.replication_lag
                                           < mj.latency_ms + mj.replication_lag)

\* instance i is ranked before instance j: heavier, or as heavy and earlier in
\* the /metrics response
RankedBefore(i, j) == Heavier(i, j) \/ (~Heavier(j, i) /\ Pos(i) < Pos(j))

\* C19: a quorum returned by /select-quorum lists its members by descending
\* weight, equal weights in the snapshot's id order; every instance left out
\* is ranked after every member; an unhealthy member appears only when fewer
\* instances than the quorum size are healthy
QuorumIsHeaviest ==
  (svc.call = "select_quorum" /\ svc.ok) =>
    /\ \A a, b \in 1..Len(svc.quorum) :
         a < b => RankedBefore(svc.quorum[a], svc.quorum[b])
    /\ \A i \in Range(svc.replicas) \ Range(svc.quorum) :
         \A a \in 1..Len(svc.quorum) : RankedBefore(svc.quorum[a], i)
    /\ (\E a \in 1..Len(svc.quorum) : ~replica_metrics[svc.quorum[a]].is_healthy) =>
         Cardinality(Alive) < Len(svc.quorum)

\* C19 witness: the quorum holds members of different weights, one of them
\* lagging, and a healthy instance as heavy as the last member was left out
QuorumCutATie ==
  /\ svc.call = "select_quorum" /\ svc.ok
  /\ Heavier(svc.quorum[1], svc.quorum[Len(svc.quorum)])
  /\ \E i \in Range(svc.replicas) \ Range(svc.quorum) :
       /\ replica_metrics[i].is_healthy
       /\ ~Heavier(svc.quorum[Len(svc.quorum)], i)
  /\ \E a \in 1..Len(svc.quorum) : replica_metrics[svc.quorum[a]].replication_lag > 0

\* C20: /select-quorum fails exactly when the snapshot lists no instance or no
\* healthy one (then no selected member is healthy); a quorum it returns has a
\* healthy member
QuorumErrorCases ==
  svc.call = "select_quorum" =>
    /\ ~svc.ok <=> (Len(svc.replicas) = 0 \/ Alive = {})
    /\ svc.ok => \E a \in 1..Len(svc.quorum) : svc.quorum[a] \in Alive

\* C20 witness: the call failed on a snapshot of four instances, none healthy
QuorumRefusedAllUnhealthy ==
  /\ svc.call = "select_quorum" /\ ~svc.ok
  /\ Len(svc.replicas) = NumInstances

\* the step in which request w leaves get_timestamp or get_cabinet_quorum
IntakeStep(w) == req[w].pc \in {"new", "quorum"} /\ req'[w] # req[w]

\* C21: a write whose statement is on some instance has obtained a timestamp
\* and, if STRONG, a quorum; the step in which get_timestamp succeeds is one
\* /timestamp call on one shard, and a request for which every shard or Cabinet
\* failed ends with an error in a step that touches no engine, and is never
\* applied
NoApplyWithoutTimestampAndQuorum ==
  /\ [](\A w \in DOMAIN req :
         /\ (req[w].applies > 0 \/ \E i \in Inst : w \in Range(log[i])) =>
              /\ req[w].timestamp \in issued
              /\ req[w].level = "STRONG" => req[w].cabinet_quorum # <<>>
         /\ (req[w].pc = "error" /\ req[w].applies = 0) =>
              \A i \in Inst : w \notin Range(log[i]))
  /\ [][\A w \in DOMAIN req : IntakeStep(w) =>
          /\ UNCHANGED dbVars
          /\ req'[w].applies = 0
          /\ IF req[w].pc = "new" /\ req'[w].pc # "error"
             THEN \E s \in Shards :
                    /\ req'[w].timestamp = current_counter[s]
                    /\ current_counter' = [current_counter EXCEPT ![s] = @ + Stride]
             ELSE UNCHANGED current_counter]_vars

\* C21 witness: one request ended with an error because no shard answered,
\* another because Cabinet failed after a timestamp was obtained; neither was
\* applied anywhere
RefusedBeforeApply ==
  \E v, w \in DOMAIN req :
    /\ req[v].pc = "error" /\ req[v].timestamp = 0
    /\ req[w].pc = "error" /\ req[w].timestamp # 0 /\ req[w].level = "STRONG"
    /\ req[w].cabinet_quorum = <<>> /\ req[w].applies = 0
    /\ \A i \in Inst : v \notin Range(log[i]) /\ w \notin Range(log[i])

\* the step in which request w is answered success = true, quorum_achieved = false
QuorumMissedStep(w) ==
  /\ req[w].pc # "done"
  /\ req'[w].pc = "done" /\ req'[w].quorum_achieved = "no"

EventualAnswersAfterApply ==
  /\ [](\A w \in DOMAIN req : (req[w].pc # "new" /\ req[w].level = "EVENTUAL") =>
          /\ req[w].pc \notin {"quorum", "catchup"}
          /\ req[w].cabinet_quorum = <<>>
          /\ req[w].targets = <<>>
          /\ req[w].quorum_achieved = "unset"
          /\ req[w].pc = "done" => req[w].applied_on # None)
  /\ [][\A w \in DOMAIN req :
          (req[w].level = "EVENTUAL" /\ req[w].applied_on = None
             /\ req'[w].applied_on # None) => req'[w].pc = "done"]_vars

\* C23 witness: an EVENTUAL write was answered while a running follower of the
\* instance it was applied on did not hold it yet
EventualAnsweredBeforeReplication ==
  \E w \in DOMAIN req :
    /\ req[w].pc = "done" /\ req[w].level = "EVENTUAL"
    /\ \E i \in Inst : /\ running[i] /\ source[i] = req[w].applied_on
                        /\ w \notin Range(log[i])

\* C24: a STRONG read that arrived after a STRONG write had been answered
\* success, its quorum confirmed, returns the row of that write
StrongReadSeesAnsweredWrite ==
  \A k \in DOMAIN rd : (rd[k].pc = "done" /\ rd[k].level = "STRONG") =>
    \A w \in rd[k].after : Acked(w) => w \in rd[k].data

\* the step that answers read k at the STRONG level
StrongReadStep(k) ==
  rd[k].pc = "new" /\ rd'[k].pc \in {"done", "error"} /\ rd'[k].level = "STRONG"

\* C25: a STRONG read is executed on the instance that is primary when the read
\* starts and on no other; when that instance fails the read ends with an error,
\* and the read leaves the primary and the followers list as they were
StrongReadOnPrimaryOnly ==
  [][\A k \in DOMAIN rd : StrongReadStep(k) =>
        /\ rd'[k].hosts = <<current_master>>
        /\ IF CanRead(current_master, rd'[k].bad)
           THEN rd'[k].pc = "done" /\ rd'[k].read_host = current_master
           ELSE rd'[k].pc = "error" /\ rd'[k].read_host = None
        /\ UNCHANGED <<current_master, current_replicas>>]_vars

\* C25 witness: a STRONG read of a valid statement ended with an error on the
\* stopped primary while a running follower was in the list
StrongReadFailedBesideFollowers ==
  \E k \in DOMAIN rd :
    /\ rd[k].level = "STRONG" /\ rd[k].pc = "error" /\ ~rd[k].bad
    /\ rd[k].hosts = <<current_master>>
    /\ ~running[current_master]
    /\ \E i \in Range(current_replicas) : running[i]

\* the followers captured by read k that the snapshot reports healthy
HealthyFollowers(k) == {i \in Range(rd[k].replicas) : replica_metrics[i].is_healthy}

\* the step that answers read k at the EVENTUAL level after /metrics answered
EventualReadStep(k) ==
  rd[k].pc = "metrics" /\ rd'[k].pc \in {"done", "error"} /\ rd'[k].metrics_ok

\* C26: an EVENTUAL read that got the metrics, with a healthy follower among the
\* followers of the read, runs first on a healthy follower of minimal latency
\* among them; when that fails it runs once on the primary and nowhere else
EventualReadOnBestFollower ==
  [][\A k \in DOMAIN rd : (EventualReadStep(k) /\ HealthyFollowers(k) # {}) =>
        LET hosts == rd'[k].hosts
            first == hosts[1]
        IN /\ Len(hosts) \in {1, 2}
           /\ first \in HealthyFollowers(k)
           /\ \A j \in HealthyFollowers(k) :
                replica_metrics[first].latency_ms <= replica_metrics[j].latency_ms
           /\ IF CanRead(first, rd[k].bad)
              THEN hosts = <<first>> /\ rd'[k].read_host = first
              ELSE hosts = <<first, rd[k].master_host>>]_vars

\* C26 witness: the best follower was not the first of the list, it failed, and
\* the read was answered by the primary
EventualReadFellBack ==
  \E k \in DOMAIN rd :
    /\ rd[k].level = "EVENTUAL" /\ rd[k].pc = "done" /\ rd[k].metrics_ok
    /\ Len(rd[k].hosts) = 2
    /\ rd[k].hosts[1] # rd[k].replicas[1]
    /\ replica_metrics[rd[k].hosts[1]].is_healthy
    /\ rd[k].read_host = rd[k].master_host

\* instance i is appended to the followers list by the step of
\* /admin/restart-old-master or /admin/start-instance that ends the call
FollowerAdded(i) ==
  /\ \/ rom.pc = "started" /\ rom' = Idle
     \/ si.pc = "started" /\ si' = Idle
  /\ i \notin Range(current_replicas)
  /\ i \in Range(current_replicas')

\* C27: an instance added to the followers list by /admin/start-instance or
\* /admin/restart-old-master streams, when it is added, from the instance that is
\* primary at that moment, and its replication is running
AddedFollowerStreamsFromPrimary ==
  [][\A i \in Inst : FollowerAdded(i) =>
        /\ source'[i] = current_master'
        /\ running'[i] /\ running'[current_master']]_vars

\* C28: every published replication lag is at least 0: replication_lag of the
\* sampler's entries, global_lag and the per-table lag of both /table-timestamps
\* views
PublishedLagNonNegative ==
  /\ \A i \in Inst : replica_metrics[i].replication_lag >= 0
  /\ tt.pc = "published" =>
       /\ \A i \in DOMAIN tt.global_lag : tt.global_lag[i] >= 0
       /\ \A i \in DOMAIN tt.table_lag : tt.table_lag[i] >= 0

\* what one sampling round did to the entry of instance i
RoundKeepsCount(i) ==
  LET old == replica_metrics[i]
      new == replica_metrics'[i]
      crashed == old.is_healthy /\ ~new.is_healthy
      recovered == ~old.is_healthy /\ new.is_healthy
  IN /\ new.is_healthy = (new.latency_ms < UnhealthyThreshold)
     /\ ~running[i] => ~new.is_healthy
     /\ new.crash_count = old.crash_count + (IF crashed THEN 1 ELSE 0)
     /\ new.start_time = IF crashed \/ recovered THEN now ELSE old.start_time

KthCallReturnsKthValue ==
  \A s \in Shards : served[s].k > 0 =>
    served[s].timestamp = StartValue(s) + Stride * (served[s].k - 1)

\* C30 witness: after a /reset a shard has served two calls, the second of
\* which repeated a value handed out before the reset
SecondCallAfterReset ==
  /\ resets /\ duplicate
  /\ \E s \in Shards : served[s].k = 2 /\ served[s].timestamp = StartValue(s) + Stride

\* C35: the designated primary is never a member of the followers list
PrimaryNotAFollower == current_master \notin Range(current_replicas)

\* C36: the followers list never holds the same instance twice
FollowersDistinct ==
  \A a, b \in DOMAIN current_replicas :
    current_replicas[a] = current_replicas[b] => a = b

\* executed_on of a write response: master_host, read before the first apply
executed_on(r) == r.master_host

\* C37: executed_on of a successful write response names the instance the
\* statement was applied on
ExecutedOnNamesApplier ==
  \A w \in DOMAIN req : req[w].pc = "done" => executed_on(req[w]) = req[w].applied_on

\* C39: quorum_achieved = true is reported only by a polling round of a wait that
\* has at least one target, in which every target reports a timestamp >= t; the
\* targets are the Cabinet-selected ids found in the followers list when the wait
\* starts, and a wait without targets reports quorum_achieved = false
QuorumNeverVacuous ==
  [][\A w \in DOMAIN req :
       /\ (req[w].quorum_achieved # "yes" /\ req'[w].quorum_achieved = "yes") =>
            /\ req[w].pc = "catchup"
            /\ req[w].targets # <<>>
            /\ \A k \in 1..Len(req[w].targets) :
                  get_last_applied_timestamp(req[w].targets[k]) >= req[w].timestamp
       /\ (req[w].applied_on = None /\ req'[w].applied_on # None
             /\ req'[w].level = "STRONG") =>
            /\ req'[w].targets = TargetReplicas(req[w].cabinet_quorum, current_replicas')
            /\ req'[w].targets = <<>> =>
                 (req'[w].pc = "done" /\ req'[w].quorum_achieved = "no")]_vars

\* C39 witness: a STRONG write held a Cabinet quorum none of whose members was in
\* the followers list, and was answered quorum_achieved = false
QuorumWithoutFollower ==
  \E w \in DOMAIN req :
    /\ req[w].pc = "done" /\ req[w].level = "STRONG"
    /\ req[w].cabinet_quorum # <<>>
    /\ req[w].targets = <<>>
    /\ req[w].quorum_achieved = "no"

\* C40: a STRONG write that waits for its quorum is answered in the end, by a
\* round that finds every target caught up or by the final check after the
\* deadline, and an answered request takes no further step
StrongWriteAnswered ==
  /\ \A w \in 1..MaxWrites : (req[w].pc = "catchup") ~> (req[w].pc = "done")
  /\ [][\A w \in DOMAIN req :
          /\ (req[w].pc = "catchup" /\ req'[w] # req[w]) =>
               /\ req'[w].pc = "done"
               /\ req'[w].quorum_achieved = IF AllCaughtUp(req[w]) THEN "yes" ELSE "no"
          /\ req[w].pc = "done" => req'[w] = req[w]]_vars

\* C40 witness: a STRONG write was answered by the final check while a target
\* had not caught up
AnsweredAtDeadline ==
  \E w \in DOMAIN req :
    /\ req[w].pc = "done" /\ req[w].level = "STRONG"
    /\ req[w].targets # <<>>
    /\ req[w].quorum_achieved = "no"
    /\ ~AllCaughtUp(req[w])

\* the requests of a level that have been answered, with success or an error
Completed(level) ==
  Cardinality({w \in DOMAIN req : req[w].pc \in {"done", "error"} /\ req[w].level = level})
    + Cardinality({k \in DOMAIN rd : rd[k].pc \in {"done", "error"} /\ rd[k].level = level})

\* C38: every answered request has added exactly one to read_count, write_count
\* or failures of its consistency level: the three counters of a level add up to
\* the number of its answered requests
EveryCompletedRequestCounted ==
  \A level \in Levels :
    consistency_metrics[level].read_count + consistency_metrics[level].write_count
      + consistency_metrics[level].failures = Completed(level)

(* ------------------------ the only-increase metadata --------------------- *)

\* the timestamps of the metadata updates instance i has executed, as the
\* primary or replaying its source
AppliedTimestamps(i) == {req[log[i][k]].timestamp : k \in 1..Len(log[i])}

\* the timestamps a metadata update can carry in the write pipeline
UpdateTimestamps == 0..(Stride * MaxPipelineWrites)

\* C32: a metadata update with a timestamp not greater than the stored value
\* leaves last_applied_timestamp and the per-table row unchanged, the same
\* update executed twice stores what it stores once, and after the updates an
\* instance has executed, in whatever order, both hold the greatest timestamp
\* executed (0 when none was)
StaleTimestampIsNoOp ==
  /\ [](\A i \in Inst :
          /\ \A t \in AppliedTimestamps(i) \cup {0} : t <= last_applied[i]
          /\ last_applied[i] \in AppliedTimestamps(i) \cup {0}
          /\ table_ts[i] = last_applied[i]
          /\ \A k \in UpdateTimestamps :
               /\ k <= last_applied[i] => Stored(last_applied[i], k) = last_applied[i]
               /\ Stored(Stored(last_applied[i], k), k) = Stored(last_applied[i], k))
  /\ [][\A i \in Inst :
          (/\ Len(log'[i]) = Len(log[i]) + 1
           /\ req[log'[i][Len(log'[i])]].timestamp <= last_applied[i])
            => (last_applied'[i] = last_applied[i] /\ table_ts'[i] = table_ts[i])]_vars

\* an instance executed, last, an update older than the value it stored, and
\* kept the stored value
StaleUpdateExecuted ==
  \E i \in Inst :
    /\ Len(log[i]) = 2
    /\ req[log[i][2]].timestamp < req[log[i][1]].timestamp
    /\ last_applied[i] = req[log[i][1]].timestamp
    /\ table_ts[i] = req[log[i][1]].timestamp

(* ------------------------------ the data-clear --------------------------- *)

\* what a fresh install shows: the allocator counters at their seeds, no
\* applied timestamp, no per-table timestamp, empty data tables, zeroed
\* consistency counters, the bootstrap topology
FreshInstall ==
  /\ current_counter = [s \in Shards |-> StartValue(s)]
  /\ \A i \in Inst : last_applied[i] = 0 /\ table_ts[i] = 0 /\ Rows(i) = {}
  /\ consistency_metrics = ZeroCounters
  /\ current_master = 1
  /\ current_replicas = <<2, 3, 4>>

\* /admin/clear-data answered success with every shard reset, no write request
\* was handled and the topology did not change since the call arrived, and
\* every instance has replayed the primary's transactions
ClearSettled ==
  /\ cd.pc = "done" /\ cd.success /\ cd.timestamp_reset
  /\ ClientIdle /\ cd.before = <<req, current_master, current_replicas>>
  /\ \A i \in Inst : running[i] /\ Range(log[i]) = Range(log[current_master])

\* C31: once every allocator shard is reset and /admin/clear-data has run, the
\* observable state is that of a fresh install
ClearRestoresFreshInstall == ClearSettled => FreshInstall

Spells(q, kw) ==
  \E k \in 1..Len(q) :
    /\ q[k] \notin Blank
    /\ \A j \in 1..(k - 1) : q[j] \in Blank
    /\ k + Len(kw) - 1 <= Len(q)
    /\ \A j \in 1..Len(kw) : upper_char(q[k + j - 1]) = kw[j]

\* the classifier returns UNKNOWN: the statement is empty or starts with none
\* of SELECT, INSERT, UPDATE, DELETE
Unsupported(q) == \A kw \in {KwSELECT, KwINSERT, KwUPDATE, KwDELETE} : ~Spells(q, kw)

\* no timestamp was handed out, no instance executed or answered anything, no
\* handler ran, and the counters and the topology are those of the start
NothingTouched ==
  /\ current_counter = [s \in Shards |-> StartValue(s)]
  /\ issued = {}
  /\ \A i \in Inst : log[i] = <<>> /\ last_applied[i] = 0 /\ table_ts[i] = 0
  /\ \A w \in DOMAIN req : req[w] = NewReq
  /\ \A k \in DOMAIN rd : rd[k] = NewRead
  /\ consistency_metrics = ZeroCounters
  /\ current_master = 1
  /\ current_replicas = <<2, 3, 4>>

\* C34: a statement the classifier returns UNKNOWN for is answered 400 at
\* /query and has no effect: the step that answers it changes nothing but the
\* answer, and afterwards no timestamp is consumed, no instance is contacted,
\* and the counters and the topology are unchanged
UnsupportedStatementRejected ==
  /\ []((qr.pc # "idle" /\ qr.pc # "received" /\ Unsupported(qr.query))
          => (qr.pc = "rejected" /\ qr.status_code = 400 /\ NothingTouched))
  /\ [][(qr.pc = "received" /\ Unsupported(qr.query))
          => /\ qr'.pc = "rejected"
             /\ UNCHANGED <<topoVars, dbVars, tsVars, samplerVars, req, adminVars,
                            consistency_metrics, rd>>]_vars

\* a statement that is not empty and starts with no supported word was
\* answered 400 "Unsupported query type"
UnsupportedStatementAnswered ==
  /\ qr.pc = "rejected"
  /\ qr.detail = "Unsupported query type"
  /\ strip(qr.query) # <<>>
  /\ NothingTouched

====
